---- MODULE Spec2Model ----
(***************************************************************************)
(* Model of reynchr/sales_map_gen: the region registry of                  *)
(* RegionalMapGenerator (backend/map_generator.py), its color resolution,  *)
(* abbreviation font sizing and render pipeline, and the HTTP handlers of  *)
(* backend/app.py.                                                         *)
(***************************************************************************)
EXTENDS Integers, Sequences, FiniteSets, TLC

VARIABLES
    regions,    \* self.regions: the dict, as the sequence of its items in iteration order
    file,       \* content of the JSON file at the path given to export_regions / import_regions
    last,       \* the last call made on the generator: its arguments and what it returned
    order,      \* region names in the order they were first registered
    states,     \* _add_abbreviations: the area of each row of the states frame
    row,        \* _add_abbreviations: the row the loop is at
    fontsizes,  \* _add_abbreviations: the fontsize of each text drawn so far
    request,    \* POST /import-regions: the request being answered
    response,   \* POST /import-regions: the response returned
    pc,         \* generate_map: the statement the method is at
    turn,       \* generate_map: the index of the loop over continental
    raises,     \* generate_map: the territories whose geometry makes plot() raise
    drawn,      \* generate_map: the territories plotted on the axes
    logged,     \* generate_map: the territories reported by "Error plotting state"
    labels,     \* generate_map: the regions that got a label and a leader line
    saved,      \* generate_map: whether savefig has written output_path
    calls,      \* app.py: the requests to /generate-map and /export-regions
    disk,       \* app.py: for each path under uploads/ and exports/, the call that wrote it last
    now,        \* app.py: datetime.now(), in seconds
    step,       \* _create_inset_map: the statement the method is at
    geom,       \* _create_inset_map: state_data.geometry.iloc[0]
    transform,  \* _create_inset_map: the scale and the anchor point x, y
    centroid,   \* _create_inset_map: geom.centroid
    scaled_geom,      \* _create_inset_map: the result of scale(...)
    transformed_geom  \* _create_inset_map: the result of translate(...)

registryVars == <<regions, file, last, order>>
abbrevVars   == <<states, row, fontsizes>>
routeVars    == <<request, response>>
renderVars   == <<pc, turn, raises, drawn, logged, labels, saved>>
serverVars   == <<calls, disk, now>>
insetVars    == <<step, geom, transform, centroid, scaled_geom, transformed_geom>>

vars == <<registryVars, abbrevVars, routeVars, renderVars, serverVars, insetVars>>

(***************************************************************************)
(* Python values and JSON values.  json.dump and json.load convert between *)
(* the two, so they are kept apart: a Python value has a kind k, a JSON    *)
(* value has a type t.  Every value carries all fields so that any two     *)
(* values can be compared.                                                 *)
(***************************************************************************)
PyStr(x)   == [k |-> "str",   s |-> x,  n |-> 0, a |-> <<>>]
PyInt(i)   == [k |-> "int",   s |-> "", n |-> i, a |-> <<>>]
PyFloat(i) == [k |-> "float", s |-> "", n |-> i, a |-> <<>>]
PyBool(b)  == [k |-> "bool",  s |-> "", n |-> IF b THEN 1 ELSE 0, a |-> <<>>]
PyNone     == [k |-> "NoneType", s |-> "", n |-> 0, a |-> <<>>]
PyList(q)  == [k |-> "list",  s |-> "", n |-> 0, a |-> q]

JString(x) == [t |-> "string", s |-> x,  n |-> 0, a |-> <<>>]
JInt(i)    == [t |-> "int",    s |-> "", n |-> i, a |-> <<>>]
JReal(i)   == [t |-> "real",   s |-> "", n |-> i, a |-> <<>>]
JTrue      == [t |-> "true",   s |-> "", n |-> 0, a |-> <<>>]
JFalse     == [t |-> "false",  s |-> "", n |-> 0, a |-> <<>>]
JNull      == [t |-> "null",   s |-> "", n |-> 0, a |-> <<>>]
JArray(q)  == [t |-> "array",  s |-> "", n |-> 0, a |-> q]

\* json.dump of one Python value (json.JSONEncoder's conversion table).
DumpValue(v) ==
    CASE v.k = "str"      -> JString(v.s)
      [] v.k = "int"      -> JInt(v.n)
      [] v.k = "float"    -> JReal(v.n)
      [] v.k = "bool"     -> IF v.n = 1 THEN JTrue ELSE JFalse
      [] v.k = "NoneType" -> JNull
      [] v.k = "list"     -> JArray(v.a)

\* json.load of one JSON value (json.JSONDecoder's conversion table).
LoadValue(j) ==
    CASE j.t = "string" -> PyStr(j.s)
      [] j.t = "int"    -> PyInt(j.n)
      [] j.t = "real"   -> PyFloat(j.n)
      [] j.t = "true"   -> PyBool(TRUE)
      [] j.t = "false"  -> PyBool(FALSE)
      [] j.t = "null"   -> PyNone
      [] j.t = "array"  -> PyList(j.a)

\* isinstance(v, list) and isinstance(v, int); bool is a subclass of int.
IsInstanceList(v) == v.k = "list"
IsInstanceInt(v)  == v.k \in {"int", "bool"}

(***************************************************************************)
(* The registry.                                                           *)
(***************************************************************************)
required_fields == {"territories", "color", "sales_rep", "sales_number"}

DefaultColor == PyStr("#2C2C2C")

Names == {"East", "West"}
MainTerritories  == {"Texas", "Ohio"}
InsetTerritories == {"Alaska", "Hawaii"}
TerritoryLists == {<<"Texas">>, <<"Ohio", "Alaska">>, <<"Texas", "Alaska">>}
Colors == {"#FF0000", "#00FF00"}
SalesReps == {"Ann"}
SalesNumbers == {7}

Region(name, territories, color, sales_rep, sales_number) ==
    [name |-> name, territories |-> territories, color |-> color,
     sales_rep |-> sales_rep, sales_number |-> sales_number]

IndexOf(regs, name) ==
    IF \E i \in 1..Len(regs) : regs[i].name = name
    THEN CHOOSE i \in 1..Len(regs) : regs[i].name = name
    ELSE 0

\* add_region as a delete followed by an insert: an overwritten name moves to the end.
add_region_reinserts(regs, name, territories, color, sales_rep, sales_number) ==
    Append(SelectSeq(regs, LAMBDA r : r.name # name),
           Region(name, territories, color, sales_rep, sales_number))

\* self.regions[name] = {...}: a dict assignment keeps the position of a key
\* already present and appends a new key.
add_region(regs, name, territories, color, sales_rep, sales_number) ==
    LET i == IndexOf(regs, name)
        r == Region(name, territories, color, sales_rep, sales_number)
    IN  IF i = 0 THEN Append(regs, r) ELSE [regs EXCEPT ![i] = r]

\* The loop of generate_map over self.regions.values(): the first region whose
\* territories contain the name decides, the loop breaks there.
RECURSIVE ResolveFrom(_, _, _)
ResolveFrom(regs, i, name) ==
    IF i > Len(regs) THEN DefaultColor
    ELSE IF \E j \in 1..Len(regs[i].territories.a) : regs[i].territories.a[j] = name
         THEN regs[i].color
         ELSE ResolveFrom(regs, i + 1, name)

\* The loop without its break: the last region that contains the name decides.
state_color_no_break(regs, name) ==
    LET claim == {i \in 1..Len(regs) :
                    \E j \in 1..Len(regs[i].territories.a) : regs[i].territories.a[j] = name}
    IN  IF claim = {} THEN DefaultColor
        ELSE regs[CHOOSE i \in claim : \A j \in claim : j <= i].color

state_color(regs, name) == ResolveFrom(regs, 1, name)

\* The same loop in _create_inset_map.
RECURSIVE InsetResolveFrom(_, _, _)
InsetResolveFrom(regs, i, state_name) ==
    IF i > Len(regs) THEN DefaultColor
    ELSE IF \E j \in 1..Len(regs[i].territories.a) : regs[i].territories.a[j] = state_name
         THEN regs[i].color
         ELSE InsetResolveFrom(regs, i + 1, state_name)

inset_state_color(regs, state_name) == InsetResolveFrom(regs, 1, state_name)

(***************************************************************************)
(* Files.  A file is absent, holds text that is no JSON, or holds a JSON   *)
(* document: its top-level type and, for an object, its members in order.  *)
(* A member's value is a JSON value of type t; when t is "object", has is  *)
(* the set of its keys and f their values.                                 *)
(***************************************************************************)
NoFields == [x \in required_fields |-> JNull]

JObject(has, f) == [t |-> "object", has |-> has, f |-> f]
JScalar(t)      == [t |-> t, has |-> {}, f |-> NoFields]

Absent     == [st |-> "absent",  top |-> "none",   members |-> <<>>]
Garbage    == [st |-> "garbage", top |-> "none",   members |-> <<>>]
JsonDoc(m) == [st |-> "json",    top |-> "object", members |-> m]
JsonTop(t) == [st |-> "json",    top |-> t,        members |-> <<>>]

\* json.dump(self.regions, f): every region becomes an object of its four fields.
DumpRegion(r) ==
    JObject(required_fields,
            [x \in required_fields |->
                CASE x = "territories"  -> DumpValue(r.territories)
                  [] x = "color"        -> DumpValue(r.color)
                  [] x = "sales_rep"    -> DumpValue(r.sales_rep)
                  [] x = "sales_number" -> DumpValue(r.sales_number)])

\* json.dump with sort_keys=True: the regions are written in the order of their names.
json_dump_sort_keys(regs) ==
    LET first == SelectSeq(regs, LAMBDA r : r.name = "East")
        rest  == SelectSeq(regs, LAMBDA r : r.name # "East")
        q     == first \o rest
    IN  JsonDoc([i \in 1..Len(q) |-> [key |-> q[i].name, val |-> DumpRegion(q[i])]])

json_dump(regs) ==
    JsonDoc([i \in 1..Len(regs) |-> [key |-> regs[i].name, val |-> DumpRegion(regs[i])]])

\* The checks of import_regions on one member, in the order of the code.
\* "field in data" on a value that is no dict is False or raises TypeError.
RegionError(m) ==
    IF m.val.t # "object" \/ ~(required_fields \subseteq m.val.has)
        THEN "missing required fields"
    ELSE IF ~IsInstanceList(LoadValue(m.val.f["territories"]))
        THEN "territories must be a list"
    ELSE IF ~IsInstanceInt(LoadValue(m.val.f["sales_number"]))
        THEN "sales number must be an integer"
    ELSE "none"

LoadRegion(m) ==
    Region(m.key, LoadValue(m.val.f["territories"]), LoadValue(m.val.f["color"]),
           LoadValue(m.val.f["sales_rep"]), LoadValue(m.val.f["sales_number"]))

\* The validation loop of import_regions: the first member that fails a check
\* raises ValueError; 0 when every member passes.
FirstInvalid(members) ==
    IF \E i \in 1..Len(members) : RegionError(members[i]) # "none"
    THEN CHOOSE i \in 1..Len(members) :
            /\ RegionError(members[i]) # "none"
            /\ \A j \in 1..(i - 1) : RegionError(members[j]) = "none"
    ELSE 0

\* import_regions storing each region as soon as it has passed its own checks:
\* the regions before the first invalid one are applied before the error.
import_regions_stores_in_loop(regs, content) ==
    IF content.st # "json" \/ content.top # "object"
        THEN [ok |-> FALSE, regions |-> regs, error |-> "cannot read"]
    ELSE LET bad == FirstInvalid(content.members)
             n   == IF bad = 0 THEN Len(content.members) ELSE bad - 1
         IN  [ok |-> bad = 0,
              error |-> IF bad = 0 THEN "none" ELSE RegionError(content.members[bad]),
              regions |-> IF n = 0 /\ bad # 0 THEN regs
                          ELSE [i \in 1..n |-> LoadRegion(content.members[i])]]

\* import_regions(filepath) on registry regs when the file holds content:
\* what it returns and the registry it leaves.  open() raises on an absent
\* file, json.load on text that is no JSON, regions.items() on a document
\* that is no object; every exception is caught and False returned.
import_regions(regs, content) ==
    IF content.st # "json" \/ content.top # "object"
        THEN [ok |-> FALSE, regions |-> regs, error |-> "cannot read"]
    ELSE IF FirstInvalid(content.members) # 0
        THEN [ok |-> FALSE, regions |-> regs,
              error |-> RegionError(content.members[FirstInvalid(content.members)])]
    ELSE [ok |-> TRUE, error |-> "none",
          regions |-> [i \in 1..Len(content.members) |-> LoadRegion(content.members[i])]]

\* export_regions(filepath): open(filepath, 'w') may raise (the file is left
\* as it was), the write may raise after the file was truncated, or the
\* document is written whole.
export_regions(regs, content, io) ==
    CASE io = "open fails"  -> [ok |-> FALSE, file |-> content]
      [] io = "write fails" -> [ok |-> FALSE, file |-> Garbage]
      [] io = "ok"          -> [ok |-> TRUE,  file |-> json_dump(regs)]

IoOutcomes == {"ok", "open fails", "write fails"}

(***************************************************************************)
(* Input files for import_regions: documents of up to two members, each    *)
(* well-formed or malformed in one of the ways the validation looks for.   *)
(***************************************************************************)
GoodFields(terr, num) ==
    [x \in required_fields |->
        CASE x = "territories"  -> terr
          [] x = "color"        -> JString("#0000FF")
          [] x = "sales_rep"    -> JString("Bob")
          [] x = "sales_number" -> num]

MemberSamples ==
    { JObject(required_fields, GoodFields(JArray(<<"Ohio">>), JInt(3))),
      JObject(required_fields, GoodFields(JArray(<<"Ohio">>), JTrue)),
      JObject(required_fields \ {"color"}, GoodFields(JArray(<<"Ohio">>), JInt(3))),
      JObject(required_fields, GoodFields(JString("Ohio"), JInt(3))),
      JObject(required_fields, GoodFields(JArray(<<"Ohio">>), JString("3"))),
      JObject(required_fields, GoodFields(JArray(<<"Ohio">>), JReal(3))),
      JScalar("string") }

FileSamples ==
    {Absent, Garbage, JsonTop("array"), JsonDoc(<<>>)}
    \cup { JsonDoc(<<[key |-> k, val |-> v]>>) : k \in Names, v \in MemberSamples }
    \cup { JsonDoc(<<[key |-> "East", val |-> v], [key |-> "West", val |-> w]>>) :
             v \in MemberSamples, w \in MemberSamples }

NoCall ==
    [op |-> "none", ok |-> TRUE, name |-> "", t |-> "", color |-> PyNone,
     arg |-> Region("", PyNone, PyNone, PyNone, PyNone)]

\* The variables of the methods and handlers that are not running.
RegistryIdle == regions = <<>> /\ file = Absent /\ last = NoCall /\ order = <<>>
AbbrevIdle   == states = <<>> /\ row = 0 /\ fontsizes = <<>>
RouteIdle    ==
    /\ request = [has_file |-> FALSE, filename |-> "", content |-> "none", top |-> "none",
                  salesPeople |-> [t |-> "null", items |-> <<>>],
                  regions |-> [t |-> "null", members |-> <<>>]]
    /\ response = [status |-> 0, error |-> "none", region |-> ""]
RenderIdle   ==
    /\ pc = "not called" /\ turn = 0 /\ raises = {} /\ drawn = {} /\ logged = {}
    /\ labels = <<>> /\ saved = FALSE
ServerIdle   == calls = <<>> /\ disk = <<>> /\ now = 0
NoPoint      == [x |-> 0, y |-> 0]
NoTransform  == [scale |-> 0, x |-> 0, y |-> 0]
InsetIdle    ==
    /\ step = "not called" /\ geom = <<>> /\ transform = NoTransform
    /\ centroid = NoPoint /\ scaled_geom = <<>> /\ transformed_geom = <<>>

(***************************************************************************)
(* The registry as a state machine.                                        *)
(***************************************************************************)
Init ==
    /\ regions = <<>>
    /\ file \in FileSamples
    /\ last = NoCall
    /\ order = <<>>
    /\ AbbrevIdle /\ RouteIdle /\ RenderIdle /\ ServerIdle /\ InsetIdle

AddRegion ==
    \E name \in Names, q \in TerritoryLists, c \in Colors, rep \in SalesReps, num \in SalesNumbers :
        LET r == Region(name, PyList(q), PyStr(c), PyStr(rep), PyInt(num))
        IN  /\ regions' = add_region(regions, name, r.territories, r.color,
                                     r.sales_rep, r.sales_number)
            /\ last' = [NoCall EXCEPT !.op = "add_region", !.name = name, !.arg = r]
            /\ order' = IF \E i \in 1..Len(order) : order[i] = name
                        THEN order ELSE Append(order, name)
            /\ UNCHANGED <<file, abbrevVars, routeVars, renderVars, serverVars, insetVars>>

ExportRegions ==
    \E io \in IoOutcomes :
        LET res == export_regions(regions, file, io)
        IN  /\ file' = res.file
            /\ last' = [NoCall EXCEPT !.op = "export_regions", !.ok = res.ok]
            /\ UNCHANGED <<regions, order, abbrevVars, routeVars, renderVars, serverVars, insetVars>>

ImportRegions ==
    LET res == import_regions(regions, file)
    IN  /\ regions' = res.regions
        /\ last' = [NoCall EXCEPT !.op = "import_regions", !.ok = res.ok]
        /\ order' = IF res.ok THEN [i \in 1..Len(file.members) |-> file.members[i].key]
                              ELSE order
        /\ UNCHANGED <<file, abbrevVars, routeVars, renderVars, serverVars, insetVars>>

\* generate_map colors one main territory.
ResolveMain ==
    \E name \in MainTerritories :
        /\ last' = [NoCall EXCEPT !.op = "generate_map", !.t = name,
                                  !.color = state_color(regions, name)]
        /\ UNCHANGED <<regions, file, order, abbrevVars, routeVars, renderVars, serverVars, insetVars>>

\* _create_inset_map colors Alaska or Hawaii.
ResolveInset ==
    \E name \in InsetTerritories :
        /\ last' = [NoCall EXCEPT !.op = "_create_inset_map", !.t = name,
                                  !.color = inset_state_color(regions, name)]
        /\ UNCHANGED <<regions, file, order, abbrevVars, routeVars, renderVars, serverVars, insetVars>>

Next ==
    \/ AddRegion
    \/ ExportRegions
    \/ ImportRegions
    \/ ResolveMain
    \/ ResolveInset

Spec == Init /\ [][Next]_vars

(***************************************************************************)
(* _add_abbreviations: the font size of each abbreviation.  Areas are      *)
(* positive integers; a font size is the exact quotient num / den, or NaN. *)
(***************************************************************************)
MaxArea == 3

StateNames == <<"Texas", "District of Columbia", "Ohio">>

\* self.abbreviations holds the states and some provinces, not the District of Columbia.
abbreviations == {"Texas", "Ohio", "Alaska", "Hawaii"}

RECURSIVE SeqMin(_)
SeqMin(q) ==
    IF Len(q) = 1 THEN q[1]
    ELSE LET m == SeqMin(Tail(q)) IN IF q[1] < m THEN q[1] ELSE m

RECURSIVE SeqMax(_)
SeqMax(q) ==
    IF Len(q) = 1 THEN q[1]
    ELSE LET m == SeqMax(Tail(q)) IN IF q[1] > m THEN q[1] ELSE m

min_area(areas) == SeqMin(areas)
max_area(areas) == SeqMax(areas)

NaN == [nan |-> TRUE, num |-> 0, den |-> 1]
Quotient(num, den) == [nan |-> FALSE, num |-> num, den |-> den]

\* size_factor = area / max_area: the smallest territory no longer gets 6.
font_size_of_max_only(area, lo, hi) == Quotient(6 * hi + area * 6, hi)

\* size_factor = (area - min_area) / (max_area - min_area); font_size = 6 + size_factor * 6.
\* The areas are numpy.float64: 0.0 / 0.0 is nan (with a RuntimeWarning), no exception.
font_size(area, lo, hi) ==
    IF hi - lo = 0 THEN NaN
    ELSE Quotient(6 * (hi - lo) + (area - lo) * 6, hi - lo)

Unset == [nan |-> FALSE, num |-> 0, den |-> 0]

InitAbbrev ==
    /\ states \in UNION {[1..n -> 1..MaxArea] : n \in 1..Len(StateNames)}
    /\ row = 1
    /\ fontsizes = [i \in 1..Len(states) |-> Unset]
    /\ RegistryIdle /\ RouteIdle /\ RenderIdle /\ ServerIdle /\ InsetIdle

\* One turn of the loop over states.iterrows(): a row whose name has an
\* abbreviation gets a text of the computed size.
AbbreviateRow ==
    /\ row <= Len(states)
    /\ fontsizes' = IF StateNames[row] \in abbreviations
                    THEN [fontsizes EXCEPT ![row] =
                            font_size(states[row], min_area(states), max_area(states))]
                    ELSE fontsizes
    /\ row' = row + 1
    /\ UNCHANGED <<states, registryVars, routeVars, renderVars, serverVars, insetVars>>

NextAbbrev == AbbreviateRow

SpecAbbrev == InitAbbrev /\ [][NextAbbrev]_vars

(***************************************************************************)
(* POST /import-regions (app.py).  Strings that a regular expression reads *)
(* are given by their characters.                                          *)
(***************************************************************************)
JChars(q) == [t |-> "string", s |-> "", n |-> 0, a |-> q]

Digits    == {"0", "1", "2", "3", "4", "5", "6", "7", "8", "9"}
HexDigits == Digits \cup {"A", "B", "C", "D", "E", "F", "a", "b", "c", "d", "e", "f"}
Whitespace == {" ", "\n", "\t"}

\* "$" of a Python pattern matches at the end of the string and also just
\* before a newline that ends the string: re.match(r'^P$', q) holds when P
\* matches all of q, or all of q but its final "\n".
WithoutFinalNewline(q) ==
    IF Len(q) > 0 /\ q[Len(q)] = "\n" THEN SubSeq(q, 1, Len(q) - 1) ELSE q

\* #[0-9A-Fa-f]{6} against all of q.
FullMatchHexColor(q) ==
    /\ Len(q) = 7
    /\ q[1] = "#"
    /\ \A i \in 2..7 : q[i] \in HexDigits

\* re.match(r'^#[0-9A-Fa-f]{6}$', q) is not None
re_match_hex_color(q) == FullMatchHexColor(q) \/ FullMatchHexColor(WithoutFinalNewline(q))

\* [^\s@]+@[^\s@]+\.[^\s@]+ against all of q.
FullMatchEmail(q) ==
    /\ \A i \in 1..Len(q) : q[i] \notin Whitespace
    /\ Cardinality({i \in 1..Len(q) : q[i] = "@"}) = 1
    /\ \E i \in 2..Len(q) :
          /\ q[i] = "@"
          /\ \E j \in (i + 2)..(Len(q) - 1) : q[j] = "."

\* validate_email(email)
validate_email(q) == FullMatchEmail(q) \/ FullMatchEmail(WithoutFinalNewline(q))

\* validate_phone(phone): the digits left by re.sub(r'\D', '', phone) number 9 to 15.
validate_phone(q) ==
    LET digits == SelectSeq(q, LAMBDA c : c \in Digits)
    IN  Len(digits) >= 9 /\ Len(digits) <= 15

person_fields == {"id", "firstName", "lastName", "email", "phone"}
region_fields == {"territories", "color", "salesPersonId"}

Person(t, has, id, email, phone) ==
    [t |-> t, has |-> has, id |-> id, email |-> email, phone |-> phone]

RegionEntry(t, has, territories, color, salesPersonId) ==
    [t |-> t, has |-> has, territories |-> territories, color |-> color,
     salesPersonId |-> salesPersonId]

Response(status, error, region) == [status |-> status, error |-> error, region |-> region]

Ok == Response(200, "none", "")

\* Python types on which "field in value" raises TypeError, on which it is a
\* substring or membership test (False for the field names), and which cannot
\* be hashed.
NotIterable == {"int", "real", "true", "false", "null"}
Unhashable  == {"array", "object"}

\* The body of the loop over data['salesPeople'] for one person.
check_person(p) ==
    IF p.t \in NotIterable THEN Response(500, "TypeError", "")
    ELSE IF p.t # "object" \/ ~(person_fields \subseteq p.has)
        THEN Response(400, "Missing required fields in sales person data", "")
    ELSE IF p.email.t # "string" THEN Response(500, "TypeError", "")
    ELSE IF ~validate_email(p.email.a) THEN Response(400, "Invalid email format", "")
    ELSE IF p.phone.t # "string" THEN Response(500, "TypeError", "")
    ELSE IF ~validate_phone(p.phone.a) THEN Response(400, "Invalid phone format", "")
    ELSE Ok

\* The body of the loop over data['regions'].items() for one region.
check_region(name, r, people) ==
    IF r.t \in NotIterable THEN Response(500, "TypeError", "")
    ELSE IF r.t # "object" \/ ~(region_fields \subseteq r.has)
        THEN Response(400, "Missing required fields in region", name)
    ELSE IF r.territories.t # "array"
        THEN Response(400, "Invalid territories data for region", name)
    ELSE IF r.color.t # "string" THEN Response(500, "TypeError", "")
    ELSE IF ~re_match_hex_color(r.color.a)
        THEN Response(400, "Invalid color format for region", name)
    ELSE IF r.salesPersonId.t \in Unhashable THEN Response(500, "TypeError", "")
    ELSE IF ~(\E i \in 1..Len(people) : people[i].id = r.salesPersonId)
        THEN Response(400, "Referenced sales person ID not found for region", name)
    ELSE Ok

\* The first response a loop returns, Ok when it runs to its end.
RECURSIVE FirstFailure(_, _)
FirstFailure(checks, i) ==
    IF i > Len(checks) THEN Ok
    ELSE IF checks[i] # Ok THEN checks[i]
    ELSE FirstFailure(checks, i + 1)

\* file.filename.endswith('.json')
EndsWithJson(filename) == filename \in {"regions.json", ".json"}

\* import_regions() of app.py on one request.
import_regions_route(req) ==
    IF ~req.has_file THEN Response(400, "No file uploaded", "")
    ELSE IF req.filename = "" THEN Response(400, "No file selected", "")
    ELSE IF ~EndsWithJson(req.filename) THEN Response(400, "File must be JSON format", "")
    ELSE IF req.content = "not utf-8" THEN Response(500, "UnicodeDecodeError", "")
    ELSE IF req.content = "not json" THEN Response(400, "Invalid JSON format", "")
    ELSE IF req.top # "object" THEN Response(500, "AttributeError", "")
    ELSE IF req.salesPeople.t # "array"
        THEN Response(400, "Invalid sales people data format", "")
    ELSE LET people == req.salesPeople.items
             pf == FirstFailure([i \in 1..Len(people) |-> check_person(people[i])], 1)
         IN
         IF pf # Ok THEN pf
         ELSE IF req.regions.t # "object"
             THEN Response(400, "Invalid regions data format", "")
         ELSE IF \E i \in 1..Len(people) : people[i].id.t \in Unhashable
             THEN Response(500, "TypeError", "")
         ELSE FirstFailure([i \in 1..Len(req.regions.members) |->
                                check_region(req.regions.members[i].key,
                                             req.regions.members[i].val, people)], 1)

(***************************************************************************)
(* Requests: an upload with one sales person and one or two regions, each  *)
(* well-formed or wrong in one way, and the uploads that fail earlier.     *)
(***************************************************************************)
GoodEmail == JChars(<<"a", "@", "b", ".", "c">>)
GoodPhone == JChars(<<"5", "5", "5", "-", "1", "2", "3", "-", "4", "5", "6", "7">>)
Red       == JChars(<<"#", "F", "F", "0", "0", "0", "0">>)

EmailSamples == {GoodEmail, JChars(<<"a", "b">>), JInt(5)}
PhoneSamples == {GoodPhone, JChars(<<"1", "2", "3">>), JInt(5)}
ColorSamples ==
    {Red,
     JChars(<<"#", "Z", "Z", "Z", "Z", "Z", "Z">>),
     JChars(<<"#", "F", "F", "0", "0", "0", "0", "\n">>),
     JChars(<<"F", "F", "0", "0", "0", "0">>),
     JChars(<<"#", "F", "F", "0", "0", "0", "0", "0">>),
     JInt(0)}

PersonSamples ==
    { Person("object", person_fields, JInt(1), e, GoodPhone) : e \in EmailSamples }
    \cup { Person("object", person_fields, JInt(1), GoodEmail, ph) : ph \in PhoneSamples }
    \cup { Person("object", person_fields \ {"phone"}, JInt(1), GoodEmail, GoodPhone),
           Person("object", person_fields, JArray(<<"1">>), GoodEmail, GoodPhone),
           Person("int", {}, JNull, JNull, JNull),
           Person("string", {}, JNull, JNull, JNull) }

RegionSamples ==
    { RegionEntry("object", region_fields, JArray(<<"Virginia">>), c, JInt(1)) :
        c \in ColorSamples }
    \cup { RegionEntry("object", region_fields \ {"color"}, JArray(<<"Virginia">>), Red, JInt(1)),
           RegionEntry("object", region_fields, JString("Virginia"), Red, JInt(1)),
           RegionEntry("object", region_fields, JArray(<<"Virginia">>), Red, JInt(2)),
           RegionEntry("object", region_fields, JArray(<<"Virginia">>), Red, JArray(<<"1">>)),
           RegionEntry("int", {}, JNull, JNull, JNull),
           RegionEntry("string", {}, JNull, JNull, JNull) }

Upload(filename, content, top, people, regs) ==
    [has_file |-> TRUE, filename |-> filename, content |-> content, top |-> top,
     salesPeople |-> people, regions |-> regs]

NoList == [t |-> "null", items |-> <<>>]
NoDict == [t |-> "null", members |-> <<>>]

Requests ==
    { [Upload("", "json", "object", NoList, NoDict) EXCEPT !.has_file = FALSE],
      Upload("", "json", "object", NoList, NoDict),
      Upload("regions.txt", "json", "object", NoList, NoDict),
      Upload("regions.json", "not utf-8", "none", NoList, NoDict),
      Upload("regions.json", "not json", "none", NoList, NoDict),
      Upload("regions.json", "json", "array", NoList, NoDict),
      Upload("regions.json", "json", "object", NoList, NoDict),
      Upload("regions.json", "json", "object", [t |-> "array", items |-> <<>>], NoDict),
      Upload("regions.json", "json", "object", [t |-> "array", items |-> <<>>],
             [t |-> "array", members |-> <<>>]) }
    \cup { Upload("regions.json", "json", "object", [t |-> "array", items |-> <<p>>],
                  [t |-> "object", members |-> <<[key |-> "East", val |-> r]>>]) :
             p \in PersonSamples, r \in RegionSamples }
    \cup { Upload("regions.json", "json", "object",
                  [t |-> "array", items |-> <<Person("object", person_fields, JInt(1),
                                                     GoodEmail, GoodPhone)>>],
                  [t |-> "object", members |-> <<[key |-> "East", val |-> r],
                                                 [key |-> "West", val |-> q]>>]) :
             r \in RegionSamples, q \in RegionSamples }

InitRoute == RouteIdle /\ RegistryIdle /\ AbbrevIdle /\ RenderIdle /\ ServerIdle /\ InsetIdle

\* One POST /import-regions, from the request to the response.
PostImportRegions ==
    \E req \in Requests :
        /\ request' = req
        /\ response' = import_regions_route(req)
        /\ UNCHANGED <<registryVars, abbrevVars, renderVars, serverVars, insetVars>>

NextRoute == PostImportRegions

SpecRoute == InitRoute /\ [][NextRoute]_vars

(***************************************************************************)
(* generate_map, statement by statement.  plot() raises on a color that    *)
(* matplotlib does not know (add_region takes any color) and on the        *)
(* geometries in raises.                                                   *)
(***************************************************************************)
\* The rows of continental, in the order of the frame.
continental == <<"California", "Ohio", "Texas">>

InvalidColor == "#ZZZZZZ"

\* Territory lists of a second region: insets only, a name no geometry has,
\* and main territories another region claims too.
WestLists == {<<"Alaska">>, <<"Atlantis", "Hawaii">>, <<"Ohio", "Texas">>}

RenderRegistries ==
    {<<>>}
    \cup { add_region(<<>>, "East", PyList(q), PyStr(c), PyStr("Ann"), PyInt(7)) :
             q \in TerritoryLists, c \in Colors \cup {InvalidColor} }
    \cup { add_region(add_region(<<>>, "East", PyList(<<"Texas">>), PyStr(c), PyStr("Ann"), PyInt(7)),
                      "West", PyList(q), PyStr(d), PyStr("Bob"), PyInt(8)) :
             c \in Colors \cup {InvalidColor}, d \in Colors \cup {InvalidColor},
             q \in WestLists }

\* Whether GeoSeries.plot / GeoDataFrame.plot raises for this territory and color.
plot_raises(name, color) == name \in raises \/ color = PyStr(InvalidColor)

InitRender ==
    /\ pc = "figure"
    /\ turn = 1
    /\ raises \in SUBSET ({continental[i] : i \in 1..Len(continental)} \cup InsetTerritories)
    /\ drawn = {} /\ logged = {} /\ labels = <<>> /\ saved = FALSE
    /\ regions \in RenderRegistries
    /\ file = Absent /\ last = NoCall /\ order = <<>>
    /\ AbbrevIdle /\ RouteIdle /\ ServerIdle /\ InsetIdle

Goto(stage) ==
    /\ pc' = stage
    /\ UNCHANGED <<turn, raises, drawn, logged, labels, saved>>
    /\ UNCHANGED <<registryVars, abbrevVars, routeVars, serverVars, insetVars>>

\* plt.subplots, ax.set_facecolor
SetupFigure == pc = "figure" /\ Goto("bounds")

\* continental.total_bounds, ax.set_xlim, ax.set_ylim
SetBounds == pc = "bounds" /\ Goto("territories")

\* One turn of the loop over continental: the plot is inside try/except Exception,
\* the handler prints and the loop goes on.
PlotTerritory ==
    /\ pc = "territories"
    /\ turn <= Len(continental)
    /\ LET name == continental[turn]
       IN  IF plot_raises(name, state_color(regions, name))
           THEN logged' = logged \cup {name} /\ UNCHANGED drawn
           ELSE drawn' = drawn \cup {name} /\ UNCHANGED logged
    /\ turn' = turn + 1
    /\ pc' = IF turn = Len(continental) THEN "lakes" ELSE "territories"
    /\ UNCHANGED <<raises, labels, saved>>
    /\ UNCHANGED <<registryVars, abbrevVars, routeVars, serverVars, insetVars>>

\* self.lakes.plot
PlotLakes == pc = "lakes" /\ Goto("abbreviations")

\* self._add_abbreviations(ax, continental)
AddAbbreviations == pc = "abbreviations" /\ Goto("inset Alaska")

\* _create_inset_map for one of Alaska and Hawaii: the plot is not inside a
\* try, an exception leaves generate_map.
CreateInset(state_name, stage, next) ==
    /\ pc = stage
    /\ IF plot_raises(state_name, inset_state_color(regions, state_name))
       THEN pc' = "raised" /\ UNCHANGED drawn
       ELSE pc' = next /\ drawn' = drawn \cup {state_name}
    /\ UNCHANGED <<turn, raises, logged, labels, saved>>
    /\ UNCHANGED <<registryVars, abbrevVars, routeVars, serverVars, insetVars>>

CreateInsetAlaska == CreateInset("Alaska", "inset Alaska", "inset Hawaii")
CreateInsetHawaii == CreateInset("Hawaii", "inset Hawaii", "labels")

\* [t for t in region_data['territories'] if t not in ['Alaska', 'Hawaii']]
without_insets(territories) ==
    SelectSeq(territories, LAMBDA t : t \notin {"Alaska", "Hawaii"})

\* continental[continental['name'].isin(...)]: the rows of continental whose
\* name is in the list.
region_states(territories) ==
    SelectSeq(continental,
              LAMBDA n : \E u \in 1..Len(without_insets(territories)) :
                            without_insets(territories)[u] = n)

\* A loop that draws a label for every region, selection empty or not.
region_labels_without_guard(regs) == [i \in 1..Len(regs) |-> regs[i].name]

\* The loop over self.regions.items(): one ax.plot and one ax.text for every
\* region with len(region_states) > 0, in the order of the dict.
RECURSIVE region_labels(_)
region_labels(regs) ==
    IF regs = <<>> THEN <<>>
    ELSE (IF Len(region_states(Head(regs).territories.a)) > 0
          THEN <<Head(regs).name>>
          ELSE <<>>) \o region_labels(Tail(regs))

\* The labels stage of generate_map.
AddLabels ==
    /\ pc = "labels"
    /\ labels' = region_labels(regions)
    /\ pc' = "titling"
    /\ UNCHANGED <<turn, raises, drawn, logged, saved>>
    /\ UNCHANGED <<registryVars, abbrevVars, routeVars, serverVars, insetVars>>

\* ax.axis('off'), plt.suptitle, plt.title
ApplyTitling == pc = "titling" /\ Goto("savefig")

\* A renderer that writes the file where the titles should be applied.
SaveFigure_before_titling ==
    /\ pc = "titling"
    /\ saved' = TRUE
    /\ pc' = "returned"
    /\ UNCHANGED <<turn, raises, drawn, logged, labels>>
    /\ UNCHANGED <<registryVars, abbrevVars, routeVars, serverVars, insetVars>>

\* plt.savefig(output_path, ...); return fig, ax
SaveFigure ==
    /\ pc = "savefig"
    /\ saved' = TRUE
    /\ pc' = "returned"
    /\ UNCHANGED <<turn, raises, drawn, logged, labels>>
    /\ UNCHANGED <<registryVars, abbrevVars, routeVars, serverVars, insetVars>>

NextRender ==
    \/ SetupFigure
    \/ SetBounds
    \/ PlotTerritory
    \/ PlotLakes
    \/ AddAbbreviations
    \/ CreateInsetAlaska
    \/ CreateInsetHawaii
    \/ AddLabels
    \/ ApplyTitling
    \/ SaveFigure

SpecRender == InitRender /\ [][NextRender]_vars

(***************************************************************************)
(* app.py: POST /generate-map and POST /export-regions.  Each request      *)
(* writes a file and then answers with send_file(path), which reads the    *)
(* file at that path.                                                      *)
(***************************************************************************)
MaxCalls == 2
MaxTime  == 2

\* os.path.join(UPLOAD_FOLDER, 'generated_map.png')
UploadPath == [dir |-> "uploads", name |-> "generated_map.png", stamp |-> 0]

\* os.path.join('exports', f'regions_export_{timestamp}.json'), the timestamp
\* formatted '%Y%m%d_%H%M%S': one name per second.
ExportPath(second) == [dir |-> "exports", name |-> "regions_export", stamp |-> second]

NoPath == [dir |-> "", name |-> "", stamp |-> 0]

Paths == {UploadPath} \cup {ExportPath(t) : t \in 0..MaxTime}

InitServer ==
    /\ calls = [c \in 1..MaxCalls |-> [route |-> "", pc |-> "idle", path |-> NoPath, sent |-> 0]]
    /\ disk = [p \in Paths |-> 0]
    /\ now = 0
    /\ RegistryIdle /\ AbbrevIdle /\ RouteIdle /\ RenderIdle /\ InsetIdle

\* generate_map() of app.py up to map_gen.generate_map(output_path=...): savefig
\* writes the image of this call to the fixed path.
GenerateMapWrites(c) ==
    /\ calls[c].pc = "idle"
    /\ calls' = [calls EXCEPT ![c] = [route |-> "/generate-map", pc |-> "written",
                                      path |-> UploadPath, sent |-> 0]]
    /\ disk' = [disk EXCEPT ![UploadPath] = c]
    /\ UNCHANGED <<now, registryVars, abbrevVars, routeVars, renderVars, insetVars>>

\* export_regions() of app.py up to json.dump(data, f): the file is named after
\* the second the request is handled in.
ExportRegionsWrites(c) ==
    /\ calls[c].pc = "idle"
    /\ calls' = [calls EXCEPT ![c] = [route |-> "/export-regions", pc |-> "written",
                                      path |-> ExportPath(now), sent |-> 0]]
    /\ disk' = [disk EXCEPT ![ExportPath(now)] = c]
    /\ UNCHANGED <<now, registryVars, abbrevVars, routeVars, renderVars, insetVars>>

\* return send_file(path, ...): the response carries what the file holds now.
SendFile(c) ==
    /\ calls[c].pc = "written"
    /\ calls' = [calls EXCEPT ![c].pc = "returned", ![c].sent = disk[calls[c].path]]
    /\ UNCHANGED <<disk, now, registryVars, abbrevVars, routeVars, renderVars, insetVars>>

\* The clock passes to the next second.
Tick ==
    /\ now < MaxTime
    /\ now' = now + 1
    /\ UNCHANGED <<calls, disk, registryVars, abbrevVars, routeVars, renderVars, insetVars>>

NextServer ==
    \/ \E c \in 1..MaxCalls : GenerateMapWrites(c)
    \/ \E c \in 1..MaxCalls : ExportRegionsWrites(c)
    \/ \E c \in 1..MaxCalls : SendFile(c)
    \/ Tick

SpecServer == InitServer /\ [][NextServer]_vars

(***************************************************************************)
(* _create_inset_map: the geometry of the territory is scaled and          *)
(* translated to the anchor point.  Geometries are triangles, whose        *)
(* centroid is the mean of the vertices; coordinates are multiples of 60   *)
(* and scale factors are tenths, so that centers, centroids and scaled     *)
(* coordinates are whole numbers and the arithmetic is exact.              *)
(***************************************************************************)
MaxCoord == 2

Coordinates == {60 * v : v \in 0..MaxCoord}

Points == [x : Coordinates, y : Coordinates]

\* Twice the signed area of a triangle.
Area2(g) ==
    (g[2].x - g[1].x) * (g[3].y - g[1].y) - (g[3].x - g[1].x) * (g[2].y - g[1].y)

\* state_data.geometry.iloc[0]: polygons with three vertices and an area.
Geometries == {g \in {<<a, b, c>> : a \in Points, b \in Points, c \in Points} : Area2(g) # 0}

\* The transforms generate_map passes (scale 0.3 for Alaska, 0.8 for Hawaii to
\* the right of it, in tenths) and one of scale 1.0.
Transforms ==
    { [scale |-> 3,  x |-> -180, y |-> -120],
      [scale |-> 8,  x |-> -30,  y |-> -120],
      [scale |-> 10, x |-> 0,    y |-> 0] }

\* geom.centroid of a triangle.
centroid_of(g) ==
    [x |-> (g[1].x + g[2].x + g[3].x) \div 3, y |-> (g[1].y + g[2].y + g[3].y) \div 3]

\* geom.bounds: (minx, miny, maxx, maxy).
bounds_of(g) ==
    [minx |-> CHOOSE m \in {g[i].x : i \in 1..Len(g)} : \A i \in 1..Len(g) : m <= g[i].x,
     miny |-> CHOOSE m \in {g[i].y : i \in 1..Len(g)} : \A i \in 1..Len(g) : m <= g[i].y,
     maxx |-> CHOOSE m \in {g[i].x : i \in 1..Len(g)} : \A i \in 1..Len(g) : m >= g[i].x,
     maxy |-> CHOOSE m \in {g[i].y : i \in 1..Len(g)} : \A i \in 1..Len(g) : m >= g[i].y]

\* The origin of shapely.affinity.scale: 'center' is the center of the
\* bounding box of the geometry, 'centroid' is its centroid.
origin_point(g, origin) ==
    IF origin = "centroid" THEN centroid_of(g)
    ELSE [x |-> (bounds_of(g).minx + bounds_of(g).maxx) \div 2,
          y |-> (bounds_of(g).miny + bounds_of(g).maxy) \div 2]

\* shapely.affinity.scale(geom, xfact, yfact, origin), the factors in tenths.
scale(g, xfact, yfact, origin) ==
    [i \in 1..Len(g) |->
        [x |-> origin_point(g, origin).x + ((g[i].x - origin_point(g, origin).x) * xfact) \div 10,
         y |-> origin_point(g, origin).y + ((g[i].y - origin_point(g, origin).y) * yfact) \div 10]]

\* shapely.affinity.translate(geom, xoff, yoff)
translate(g, xoff, yoff) ==
    [i \in 1..Len(g) |-> [x |-> g[i].x + xoff, y |-> g[i].y + yoff]]

InitInset ==
    /\ step = "geom"
    /\ geom \in Geometries
    /\ transform \in Transforms
    /\ centroid = NoPoint /\ scaled_geom = <<>> /\ transformed_geom = <<>>
    /\ RegistryIdle /\ AbbrevIdle /\ RouteIdle /\ RenderIdle /\ ServerIdle

\* centroid = geom.centroid
TakeCentroid ==
    /\ step = "geom"
    /\ centroid' = centroid_of(geom)
    /\ step' = "scale"
    /\ UNCHANGED <<geom, transform, scaled_geom, transformed_geom>>
    /\ UNCHANGED <<registryVars, abbrevVars, routeVars, renderVars, serverVars>>

\* scaled_geom = scale(geom, xfact=transform['scale'], yfact=transform['scale'],
\*                     origin='center')
ScaleGeom ==
    /\ step = "scale"
    /\ scaled_geom' = scale(geom, transform.scale, transform.scale, "center")
    /\ step' = "translate"
    /\ UNCHANGED <<geom, transform, centroid, transformed_geom>>
    /\ UNCHANGED <<registryVars, abbrevVars, routeVars, renderVars, serverVars>>

\* transformed_geom = translate(scaled_geom, xoff=transform['x'] - centroid.x,
\*                             yoff=transform['y'] - centroid.y)
TranslateGeom ==
    /\ step = "translate"
    /\ transformed_geom' = translate(scaled_geom, transform.x - centroid.x,
                                                  transform.y - centroid.y)
    /\ step' = "plot"
    /\ UNCHANGED <<geom, transform, centroid, scaled_geom>>
    /\ UNCHANGED <<registryVars, abbrevVars, routeVars, renderVars, serverVars>>

NextInset ==
    \/ TakeCentroid
    \/ ScaleGeom
    \/ TranslateGeom

SpecInset == InitInset /\ [][NextInset]_vars

(***************************************************************************)
(* Properties of the registry.                                             *)
(***************************************************************************)
Contains(r, name) == \E j \in 1..Len(r.territories.a) : r.territories.a[j] = name

RegionNamed(regs, name) == regs[IndexOf(regs, name)]

\* The names of order that are registered with a list containing territory name.
Claimants(regs, name) ==
    {i \in 1..Len(order) :
        /\ IndexOf(regs, order[i]) # 0
        /\ Contains(RegionNamed(regs, order[i]), name)}

FirstRegistered(regs, name) ==
    order[CHOOSE i \in Claimants(regs, name) : \A j \in Claimants(regs, name) : i <= j]

ExpectedColor(regs, name) ==
    IF Claimants(regs, name) = {} THEN PyStr("#2C2C2C")
    ELSE RegionNamed(regs, FirstRegistered(regs, name)).color

\* C1: the color generate_map gives a main territory, and _create_inset_map
\* gives Alaska or Hawaii, is the color of the region registered first among
\* those whose territories contain it, and the default gray "#2C2C2C" when no
\* region contains it.
C1_FirstRegisteredRegionDecidesColor ==
    last.op \in {"generate_map", "_create_inset_map"}
        => last.color = ExpectedColor(regions, last.t)

\* Two regions of different colors both contain the resolved territory and the
\* one registered first gave its color.
C1_Witness ==
    /\ last.op = "generate_map"
    /\ Len(regions) = 2
    /\ Contains(regions[1], last.t) /\ Contains(regions[2], last.t)
    /\ regions[1].color # regions[2].color
    /\ last.color = regions[1].color

\* What the claim calls a malformed file: it cannot be read or parsed, or is no
\* object of regions, or a region is no object, lacks a required field, has
\* territories that are no array, or a sales_number that is no integer.  The
\* JSON literals true and false load as Python bool, which is an int.
MalformedRegion(v) ==
    \/ v.t # "object"
    \/ \E x \in {"territories", "color", "sales_rep", "sales_number"} : x \notin v.has
    \/ v.f["territories"].t # "array"
    \/ v.f["sales_number"].t \notin {"int", "true", "false"}

MalformedFile(content) ==
    \/ content.st # "json"
    \/ content.top # "object"
    \/ \E i \in 1..Len(content.members) : MalformedRegion(content.members[i].val)

\* C2: an import of a malformed file reports failure, and an import that
\* fails leaves the registry exactly as it was: no region of the rejected
\* file is applied.
C2_ImportIsAtomic ==
    [][last'.op = "import_regions" =>
          /\ MalformedFile(file) => ~last'.ok
          /\ ~last'.ok => regions' = regions
          /\ last'.ok => Len(regions') = Len(file.members)]_vars

\* A file whose first region is well-formed and whose second is not was
\* rejected while the registry held regions.
C2_Witness ==
    /\ last.op = "import_regions" /\ ~last.ok
    /\ Len(regions) > 0
    /\ file.st = "json" /\ Len(file.members) = 2
    /\ ~MalformedRegion(file.members[1].val)
    /\ MalformedRegion(file.members[2].val)

\* C3: an import that directly follows a successful export to the same path
\* succeeds and leaves the registry as it was before the export: the same
\* names in the same order with the same territories, color, sales_rep and
\* sales_number.
C3_ExportImportRoundTrip ==
    [][(last.op = "export_regions" /\ last.ok /\ last'.op = "import_regions") =>
          (last'.ok /\ regions' = regions)]_vars

\* A registry of two regions, "West" registered first, was exported and read back.
C3_Witness ==
    /\ last.op = "import_regions" /\ last.ok
    /\ Len(regions) = 2 /\ regions[1].name = "West"
    /\ regions[1].sales_rep = PyStr("Ann")
    /\ file.st = "json" /\ Len(file.members) = 2
    /\ file.members[1].val.f["sales_rep"] = JString("Ann")

InRegion(regs, name, t) ==
    IndexOf(regs, name) # 0 /\ Contains(RegionNamed(regs, name), t)

NamesOf(regs) == {regs[i].name : i \in 1..Len(regs)}

\* The region that wins the resolution of a territory, "" when none does.
Winner(regs, name) ==
    IF \E i \in 1..Len(regs) : Contains(regs[i], name)
    THEN regs[CHOOSE i \in 1..Len(regs) :
                /\ Contains(regs[i], name)
                /\ \A j \in 1..(i - 1) : ~Contains(regs[j], name)].name
    ELSE ""

Labelled == {i \in 1..Len(states) : fontsizes[i] # Unset}

AllAreasEqual == \A i, j \in 1..Len(states) : states[i] = states[j]

\* x >= y and x = c for exact quotients with positive denominators.
AtLeast(x, y) == ~x.nan /\ ~y.nan /\ x.num * y.den >= y.num * x.den
Equals(x, c)  == ~x.nan /\ x.num = c * x.den

\* C5: when the areas of the rendered territories are not all equal, a text of
\* a larger territory is never smaller than the text of a smaller one, every
\* size lies in [6, 12], a territory of the minimum area gets 6 and one of
\* the maximum area gets 12.
C5_FontSizeMonotonicAndBounded ==
    ~AllAreasEqual =>
        /\ \A i, j \in Labelled :
              states[i] > states[j] => AtLeast(fontsizes[i], fontsizes[j])
        /\ \A i \in Labelled :
              /\ AtLeast(fontsizes[i], Quotient(6, 1))
              /\ AtLeast(Quotient(12, 1), fontsizes[i])
              /\ (\A j \in 1..Len(states) : states[i] <= states[j]) => Equals(fontsizes[i], 6)
              /\ (\A j \in 1..Len(states) : states[i] >= states[j]) => Equals(fontsizes[i], 12)

\* Three territories of three different areas were sized, the smallest and
\* the largest among the labelled ones.
C5_Witness ==
    /\ row > Len(states) /\ Len(states) = 3
    /\ states[3] < states[2] /\ states[2] < states[1]
    /\ Labelled = {1, 3}
    /\ Equals(fontsizes[3], 6) /\ Equals(fontsizes[1], 12)

\* C6: when all rendered territories have the same area no division by zero
\* happens and every text gets the minimum font size 6.
C6_DegenerateAreasGetMinimumSize ==
    AllAreasEqual => \A i \in Labelled : Equals(fontsizes[i], 6)

(***************************************************************************)
(* Properties of POST /import-regions.                                     *)
(***************************************************************************)
Answered == response.status # 0

ParsedJsonUpload ==
    /\ Answered
    /\ request.has_file /\ EndsWithJson(request.filename) /\ request.content = "json"

WellShapedPerson(p) ==
    /\ p.t = "object"
    /\ \A x \in {"id", "firstName", "lastName", "email", "phone"} : x \in p.has
    /\ p.email.t = "string" /\ p.phone.t = "string"
    /\ p.id.t \in {"int", "string"}

WellShapedRegion(r) ==
    /\ r.t = "object"
    /\ \A x \in {"territories", "color", "salesPersonId"} : x \in r.has
    /\ r.territories.t = "array"
    /\ r.color.t = "string"
    /\ \E i \in 1..Len(request.salesPeople.items) :
          request.salesPeople.items[i].id = r.salesPersonId

\* The document has the shape {salesPeople: [person, ...], regions: {name: region, ...}}
\* with every field present, of its type, and every salesPersonId resolved.
WellShaped ==
    /\ request.top = "object"
    /\ request.salesPeople.t = "array"
    /\ request.regions.t = "object"
    /\ \A i \in 1..Len(request.salesPeople.items) :
          WellShapedPerson(request.salesPeople.items[i])
    /\ \A i \in 1..Len(request.regions.members) :
          WellShapedRegion(request.regions.members[i].val)

\* C7: an uploaded .json file whose parsed content has not the shape of a
\* {salesPeople, regions} document (top level, entry types, missing fields,
\* field types, unresolved salesPersonId) is answered with status 400.
C7_ValidationFailuresAre400 ==
    (ParsedJsonUpload /\ ~WellShaped) => response.status = 400

ExactHexColor(q) ==
    /\ Len(q) = 7
    /\ q[1] = "#"
    /\ \A i \in 2..7 : q[i] \in {"0", "1", "2", "3", "4", "5", "6", "7", "8", "9",
                                 "A", "B", "C", "D", "E", "F",
                                 "a", "b", "c", "d", "e", "f"}

\* C8: success is returned only if every region of the file has a list of
\* territories, a color that is exactly "#" and six hexadecimal digits, and a
\* salesPersonId that is the id of a sales person of the file.
C8_SuccessOnlyForValidRegions ==
    (Answered /\ response.status = 200) =>
        \A i \in 1..Len(request.regions.members) :
            /\ WellShapedRegion(request.regions.members[i].val)
            /\ ExactHexColor(request.regions.members[i].val.color.a)

(***************************************************************************)
(* Properties of generate_map.                                             *)
(***************************************************************************)
AfterTerritories == pc \notin {"figure", "bounds", "territories"}

\* The loop over continental has drawn every territory whose plot did not
\* raise and logged the others.
TerritoryLoopSkipsOnlyFailures ==
    AfterTerritories =>
        \A i \in 1..Len(continental) :
            /\ continental[i] \in drawn
                  <=> ~plot_raises(continental[i], state_color(regions, continental[i]))
            /\ continental[i] \in logged <=> continental[i] \notin drawn

\* C9: a territory whose drawing fails is skipped, every other territory is
\* drawn, and no draw failure aborts the render: generate_map never leaves
\* by an exception of a plot, and when it returns the figure was saved with
\* every territory on it whose plot did not fail.
C9_DrawFailureNeverAbortsRender ==
    /\ TerritoryLoopSkipsOnlyFailures
    /\ pc # "raised"
    /\ pc = "returned" =>
          /\ saved
          /\ \A t \in InsetTerritories :
                t \in drawn <=> ~plot_raises(t, inset_state_color(regions, t))

\* The stages of the renderer, numbered in the order the specification gives:
\* canvas, view bounds, main territories, water, abbreviations, insets, region
\* labels, titling, rasterization; 10 is the return, 0 a render that left by
\* an exception.
StageOf(at) ==
    CASE at = "figure"        -> 1
      [] at = "bounds"        -> 2
      [] at = "territories"   -> 3
      [] at = "lakes"         -> 4
      [] at = "abbreviations" -> 5
      [] at = "inset Alaska"  -> 6
      [] at = "inset Hawaii"  -> 6
      [] at = "labels"        -> 7
      [] at = "titling"       -> 8
      [] at = "savefig"       -> 9
      [] at = "returned"      -> 10
      [] OTHER                -> 0

\* A step stays in its stage, enters the next one, or leaves the render.
StageStep ==
    \/ StageOf(pc') = StageOf(pc)
    \/ StageOf(pc') = StageOf(pc) + 1
    \/ pc' = "raised" /\ pc # "raised"

\* Every effect on the figure is made by the stage it belongs to.
EffectsInTheirStage ==
    /\ drawn' # drawn =>
          /\ StageOf(pc) \in {3, 6}
          /\ StageOf(pc) = 3 => drawn' \ drawn \subseteq {continental[i] : i \in 1..Len(continental)}
          /\ StageOf(pc) = 6 => drawn' \ drawn \subseteq InsetTerritories
    /\ logged' # logged => StageOf(pc) = 3
    /\ labels' # labels => StageOf(pc) = 7
    /\ saved' # saved => StageOf(pc) = 9 /\ pc' = "returned" /\ saved'

\* C11: the stages of generate_map run in the order canvas, view bounds, main
\* territories, water, abbreviations, insets, region labels, titling,
\* rasterization: no step goes back to an earlier stage or skips one, every
\* drawing is made in its own stage, and the file is written only by the last
\* stage, after which nothing runs.
C11_StagesRunInOrder ==
    [][StageStep /\ EffectsInTheirStage /\ ~saved]_vars

\* A render that went through every stage and wrote the file, with main
\* territories, insets and a label on it.
C11_Witness ==
    /\ pc = "returned" /\ saved
    /\ "Texas" \in drawn /\ "Alaska" \in drawn /\ "Hawaii" \in drawn
    /\ labels # <<>>

\* The territories of the main rendered set: loaded, and not Alaska or Hawaii.
MainRendered == {continental[i] : i \in 1..Len(continental)} \ InsetTerritories

ClaimsMainTerritory(region) ==
    \E u \in 1..Len(region.territories.a) : region.territories.a[u] \in MainRendered

TimesLabelled(name, drawnLabels) ==
    Cardinality({i \in 1..Len(drawnLabels) : drawnLabels[i] = name})

\* C12: the labels stage ends without an error and leaves exactly one label
\* for every region that has a territory of the main rendered set, and no
\* label for any other region (territories that are all insets or unknown).
C12_LabelIffMainTerritory ==
    [][pc = "labels" =>
          /\ pc' = "titling"
          /\ \A i \in 1..Len(regions) :
                TimesLabelled(regions[i].name, labels') =
                    IF ClaimsMainTerritory(regions[i]) THEN 1 ELSE 0
          /\ \A i \in 1..Len(labels') : \E j \in 1..Len(regions) : regions[j].name = labels'[i]
      ]_vars

\* The labels stage has run on a registry with a region of a main territory
\* and a region of an unknown name and an inset: only the first is labelled.
C12_Witness ==
    /\ pc = "titling"
    /\ Len(regions) = 2
    /\ regions[2].territories.a = <<"Atlantis", "Hawaii">>
    /\ labels = <<"East">>

(***************************************************************************)
(* Properties of _create_inset_map.                                        *)
(***************************************************************************)
\* C13: the geometry is scaled about its own centroid, so that the scaling
\* leaves the centroid where it was, and the centroid of the scaled and
\* translated geometry is the anchor point (x, y) of the transform.
C13_InsetCentroidOnAnchor ==
    step = "plot" =>
        /\ centroid_of(scaled_geom) = centroid
        /\ centroid_of(transformed_geom) = [x |-> transform.x, y |-> transform.y]

(***************************************************************************)
(* Properties of the file-writing routes.                                  *)
(***************************************************************************)
Written == {c \in 1..MaxCalls : calls[c].pc # "idle"}

\* C10: every call to /generate-map or /export-regions writes a file of its
\* own: no two calls write the same path, and the file a call returns is the
\* one it wrote.
C10_OneFilePerCall ==
    /\ \A c, d \in Written : c # d => calls[c].path # calls[d].path
    /\ \A c \in Written : calls[c].pc = "returned" => calls[c].sent = c

====
